---- MODULE Spec2Model ----
(***************************************************************************)
(* Model of generate_ics.py: the spreadsheet-row to iCalendar transformer. *)
(*                                                                         *)
(* Text is modelled as a sequence of atoms.  An atom is a TLA+ string that *)
(* stands for one character ("a", "/", "4", NL) or for a fixed literal of  *)
(* the program ("BEGIN:VEVENT", "DTSTART;TZID=").  Concatenation, strip,   *)
(* replace, split and join work on these sequences as the Python string    *)
(* operations work on characters.                                          *)
(*                                                                         *)
(* A worksheet cell is a record [k, s, y, m, d, h, mi, sec]:               *)
(*   k = "none"      Python None (an empty cell)                           *)
(*   k = "str"       a text cell, s its characters                         *)
(*   k = "date"      datetime.date(y, m, d)                                *)
(*   k = "datetime"  datetime.datetime(y, m, d, h, mi, sec)                *)
(*   k = "time"      datetime.time(h, mi, sec)                             *)
(* Column positions are 1-based; 0 stands for the code's -1 (no column).   *)
(***************************************************************************)
EXTENDS Integers, Sequences, FiniteSets, TLC

\* Bound on the number of data rows read from the worksheet.
MaxRows == 2

(***************************************************************************)
(* Characters and Python str operations                                    *)
(***************************************************************************)
NL == "\n"
BS == "\\"
SP == " "

Digits == <<"0", "1", "2", "3", "4", "5", "6", "7", "8", "9">>

IsDigit(c) == \E i \in 1..10 : Digits[i] = c

DigitVal(c) == (CHOOSE i \in 1..10 : Digits[i] = c) - 1

IsSpace(c) == c \in {SP, NL, "\t"}

\* All atoms of s are digits and its length is within lo..hi.
IsNum(s, lo, hi) == Len(s) >= lo /\ Len(s) <= hi /\ \A i \in 1..Len(s) : IsDigit(s[i])

RECURSIVE NumVal(_)
NumVal(s) == IF s = <<>> THEN 0
             ELSE 10 * NumVal(SubSeq(s, 1, Len(s) - 1)) + DigitVal(s[Len(s)])

\* %02d and %04d
DigitAt(n, p) == Digits[((n \div p) % 10) + 1]

Pad2(n) == <<DigitAt(n, 10), DigitAt(n, 1)>>

Pad4(n) == <<DigitAt(n, 1000), DigitAt(n, 100), DigitAt(n, 10), DigitAt(n, 1)>>

RECURSIVE LStrip(_)
LStrip(s) == IF s # <<>> /\ IsSpace(s[1]) THEN LStrip(Tail(s)) ELSE s

RECURSIVE RStrip(_)
RStrip(s) == IF s # <<>> /\ IsSpace(s[Len(s)]) THEN RStrip(SubSeq(s, 1, Len(s) - 1)) ELSE s

\* str.strip()
Strip(s) == RStrip(LStrip(s))

\* str.split(sep) for a one-character separator: the pieces between the separators.
RECURSIVE Split(_, _)
Split(s, sep) ==
    IF \A i \in 1..Len(s) : s[i] # sep THEN <<s>>
    ELSE LET i == CHOOSE j \in 1..Len(s) : s[j] = sep /\ \A k \in 1..(j - 1) : s[k] # sep
         IN <<SubSeq(s, 1, i - 1)>> \o Split(SubSeq(s, i + 1, Len(s)), sep)

\* sep.join(parts)
RECURSIVE Join(_, _)
Join(parts, sep) ==
    IF parts = <<>> THEN <<>>
    ELSE IF Len(parts) = 1 THEN parts[1]
    ELSE parts[1] \o sep \o Join(Tail(parts), sep)

\* s begins with the atoms of p.
StartsWith(s, p) == Len(s) >= Len(p) /\ SubSeq(s, 1, Len(p)) = p

\* str.replace(old, new): every non-overlapping occurrence, left to right.
RECURSIVE Replace(_, _, _)
Replace(s, old, new) ==
    IF s = <<>> THEN <<>>
    ELSE IF StartsWith(s, old) THEN new \o Replace(SubSeq(s, Len(old) + 1, Len(s)), old, new)
    ELSE <<s[1]>> \o Replace(Tail(s), old, new)

(***************************************************************************)
(* Cells, dates and times                                                  *)
(***************************************************************************)
Cell(k, s, y, m, d, h, mi, sec) ==
    [k |-> k, s |-> s, y |-> y, m |-> m, d |-> d, h |-> h, mi |-> mi, sec |-> sec]

None == Cell("none", <<>>, 0, 0, 0, 0, 0, 0)
Text(s) == Cell("str", s, 0, 0, 0, 0, 0, 0)
DateV(y, m, d) == Cell("date", <<>>, y, m, d, 0, 0, 0)
DateTimeV(y, m, d, h, mi, sec) == Cell("datetime", <<>>, y, m, d, h, mi, sec)
TimeV(h, mi, sec) == Cell("time", <<>>, 0, 0, 0, h, mi, sec)

\* Results of the coercions: ok = FALSE is Python's None.
NoDate == [ok |-> FALSE, y |-> 0, m |-> 0, d |-> 0]
ADate(y, m, d) == [ok |-> TRUE, y |-> y, m |-> m, d |-> d]
NoTime == [ok |-> FALSE, h |-> 0, mi |-> 0, sec |-> 0]
ATime(h, mi, sec) == [ok |-> TRUE, h |-> h, mi |-> mi, sec |-> sec]
NoDateTime == [ok |-> FALSE, y |-> 0, m |-> 0, d |-> 0, h |-> 0, mi |-> 0, sec |-> 0]
ADateTime(y, m, d, h, mi, sec) ==
    [ok |-> TRUE, y |-> y, m |-> m, d |-> d, h |-> h, mi |-> mi, sec |-> sec]

IsLeap(y) == (y % 4 = 0 /\ y % 100 # 0) \/ y % 400 = 0

DaysInMonth(y, m) ==
    IF m = 2 THEN (IF IsLeap(y) THEN 29 ELSE 28)
    ELSE IF m \in {4, 6, 9, 11} THEN 30 ELSE 31

\* What datetime.date(y, m, d) accepts.
ValidDate(y, m, d) == y >= 1 /\ y <= 9999 /\ m >= 1 /\ m <= 12 /\ d >= 1 /\ d <= DaysInMonth(y, m)

ValidTime(h, mi, sec) == h >= 0 /\ h <= 23 /\ mi >= 0 /\ mi <= 59 /\ sec >= 0 /\ sec <= 59

\* d + timedelta(days=1)
AddDay(d) ==
    IF d.d < DaysInMonth(d.y, d.m) THEN ADate(d.y, d.m, d.d + 1)
    ELSE IF d.m < 12 THEN ADate(d.y, d.m + 1, 1)
    ELSE ADate(d.y + 1, 1, 1)

\* d1 < d2 on calendar dates.
DateBefore(d1, d2) ==
    \/ d1.y < d2.y
    \/ d1.y = d2.y /\ d1.m < d2.m
    \/ d1.y = d2.y /\ d1.m = d2.m /\ d1.d < d2.d

\* Python's str(value).
StrOf(v) ==
    LET dpart == Pad4(v.y) \o <<"-">> \o Pad2(v.m) \o <<"-">> \o Pad2(v.d)
        tpart == Pad2(v.h) \o <<":">> \o Pad2(v.mi) \o <<":">> \o Pad2(v.sec)
    IN CASE v.k = "none" -> <<"N", "o", "n", "e">>
         [] v.k = "str" -> v.s
         [] v.k = "date" -> dpart
         [] v.k = "datetime" -> dpart \o <<SP>> \o tpart
         [] v.k = "time" -> tpart

\* Python truthiness of a cell value: None and "" are false; date, datetime
\* and time objects and every non-empty string are true.
Truthy(v) == ~(v.k = "none" \/ (v.k = "str" /\ v.s = <<>>))

\* v in (None, "")
IsBlank(v) == v.k = "none" \/ (v.k = "str" /\ v.s = <<>>)

\* strftime("%Y%m%d")
fmt_date(d) == Pad4(d.y) \o Pad2(d.m) \o Pad2(d.d)

\* strftime("%Y%m%dT%H%M%S")
fmt_local(dt) == Pad4(dt.y) \o Pad2(dt.m) \o Pad2(dt.d) \o <<"T">>
                 \o Pad2(dt.h) \o Pad2(dt.mi) \o Pad2(dt.sec)

UpperLetters == <<"A", "B", "C", "D", "E", "F", "G", "H", "I", "J", "K", "L", "M", "N", "O", "P", "Q", "R", "S", "T", "U", "V", "W", "X", "Y", "Z">>

LowerLetters == <<"a", "b", "c", "d", "e", "f", "g", "h", "i", "j", "k", "l", "m", "n", "o", "p", "q", "r", "s", "t", "u", "v", "w", "x", "y", "z">>

\* str.lower(), one character at a time.
LowerChar(c) ==
    IF \E i \in 1..26 : UpperLetters[i] = c
    THEN LowerLetters[CHOOSE i \in 1..26 : UpperLetters[i] = c]
    ELSE c

Lower(s) == [i \in 1..Len(s) |-> LowerChar(s[i])]

(***************************************************************************)
(* The coercions _to_date, _to_time, parse_datetime                        *)
(***************************************************************************)
\* date(y, m, d), or None where the constructor raises ValueError.
MkDate(y, m, d) == IF ValidDate(y, m, d) THEN ADate(y, m, d) ELSE NoDate

\* time(h, mi, sec), or None where the constructor raises ValueError.
MkTime(h, mi, sec) == IF ValidTime(h, mi, sec) THEN ATime(h, mi, sec) ELSE NoTime

\* p has three all-digit pieces whose lengths lie in the given ranges.
Digits3(p, lo1, hi1, lo2, hi2, lo3, hi3) ==
    Len(p) = 3 /\ IsNum(p[1], lo1, hi1) /\ IsNum(p[2], lo2, hi2) /\ IsNum(p[3], lo3, hi3)

YmdOf(p) ==
    IF Digits3(p, 4, 4, 1, 2, 1, 2) THEN MkDate(NumVal(p[1]), NumVal(p[2]), NumVal(p[3]))
    ELSE NoDate

dmYOf(p) ==
    IF Digits3(p, 1, 2, 1, 2, 4, 4) THEN MkDate(NumVal(p[3]), NumVal(p[2]), NumVal(p[1]))
    ELSE NoDate

mdYOf(p) ==
    IF Digits3(p, 1, 2, 1, 2, 4, 4) THEN MkDate(NumVal(p[3]), NumVal(p[1]), NumVal(p[2]))
    ELSE NoDate

HMOf(p) ==
    IF Len(p) = 2 /\ IsNum(p[1], 1, 2) /\ IsNum(p[2], 1, 2)
    THEN MkTime(NumVal(p[1]), NumVal(p[2]), 0)
    ELSE NoTime

HMSOf(p) ==
    IF Digits3(p, 1, 2, 1, 2, 1, 2) THEN MkTime(NumVal(p[1]), NumVal(p[2]), NumVal(p[3]))
    ELSE NoTime

\* datetime.strptime(s, "%Y-%m-%d").date()
Strptime_Ymd(s) == YmdOf(Split(s, "-"))

\* datetime.strptime(s, "%d/%m/%Y").date()
Strptime_dmY(s) == dmYOf(Split(s, "/"))

\* datetime.strptime(s, "%m/%d/%Y").date()
Strptime_mdY(s) == mdYOf(Split(s, "/"))

\* datetime.strptime(s, "%H:%M").time()
Strptime_HM(s) == HMOf(Split(s, ":"))

\* datetime.strptime(s, "%H:%M:%S").time()
Strptime_HMS(s) == HMSOf(Split(s, ":"))

\* The date part of an ISO-8601 string: YYYY-MM-DD or YYYYMMDD.
IsoDatePart(s) ==
    IF Len(s) = 10 /\ s[5] = "-" /\ s[8] = "-" /\ IsNum(SubSeq(s, 1, 4), 4, 4)
       /\ IsNum(SubSeq(s, 6, 7), 2, 2) /\ IsNum(SubSeq(s, 9, 10), 2, 2)
    THEN MkDate(NumVal(SubSeq(s, 1, 4)), NumVal(SubSeq(s, 6, 7)), NumVal(SubSeq(s, 9, 10)))
    ELSE IF IsNum(s, 8, 8)
    THEN MkDate(NumVal(SubSeq(s, 1, 4)), NumVal(SubSeq(s, 5, 6)), NumVal(SubSeq(s, 7, 8)))
    ELSE NoDate

IsoHMOf(p) ==
    IF Len(p) = 2 /\ IsNum(p[1], 2, 2) /\ IsNum(p[2], 2, 2)
    THEN MkTime(NumVal(p[1]), NumVal(p[2]), 0)
    ELSE IF Digits3(p, 2, 2, 2, 2, 2, 2)
    THEN MkTime(NumVal(p[1]), NumVal(p[2]), NumVal(p[3]))
    ELSE NoTime

\* The time part of an ISO-8601 string: HH:MM or HH:MM:SS, two digits each.
IsoTimePart(s) == IsoHMOf(Split(s, ":"))

\* datetime(d.year, d.month, d.day, t.hour, t.minute, t.second) of a parsed
\* date and time; None when either is None.
DateAndTime(d, t) ==
    IF d.ok /\ t.ok THEN ADateTime(d.y, d.m, d.d, t.h, t.mi, t.sec) ELSE NoDateTime

\* datetime.fromisoformat(s) on the forms that occur in worksheet text: a date
\* alone (midnight), or a date, one separator character and a time.  Every
\* other string raises ValueError (ok = FALSE).
FromIso(s) ==
    IF Len(s) > 11
    THEN DateAndTime(IsoDatePart(SubSeq(s, 1, 10)), IsoTimePart(SubSeq(s, 12, Len(s))))
    ELSE DateAndTime(IsoDatePart(s), ATime(0, 0, 0))

\* .date() of a datetime or None
DateOfDT(dt) == IF dt.ok THEN ADate(dt.y, dt.m, dt.d) ELSE NoDate

\* .time().replace(second=0, microsecond=0) of a datetime or None
TimeOfDT(dt) == IF dt.ok THEN ATime(dt.h, dt.mi, 0) ELSE NoTime

\* The first of four attempts that succeeded, else the last one's None.
FirstOk(a, b, c, d) == IF a.ok THEN a ELSE IF b.ok THEN b ELSE IF c.ok THEN c ELSE d

\* The string attempts of _to_date with day-first and month-first exchanged.
DateFromStr_MonthFirst(s) ==
    FirstOk(Strptime_Ymd(s), Strptime_mdY(s), Strptime_dmY(s), DateOfDT(FromIso(s)))

\* The string attempts of _to_date, in order: %Y-%m-%d, %d/%m/%Y, %m/%d/%Y, fromisoformat.
DateFromStr(s) ==
    FirstOk(Strptime_Ymd(s), Strptime_dmY(s), Strptime_mdY(s), DateOfDT(FromIso(s)))

\* _to_date(val)
_to_date(val) ==
    IF IsBlank(val) THEN NoDate
    ELSE IF val.k \in {"datetime", "date"} THEN ADate(val.y, val.m, val.d)
    ELSE DateFromStr(Strip(StrOf(val)))

\* The string attempts of _to_time, in order: %H:%M, %H:%M:%S, fromisoformat.
TimeFromStr(s) ==
    FirstOk(Strptime_HM(s), Strptime_HMS(s), TimeOfDT(FromIso(s)), NoTime)

\* _to_time(val)
_to_time(val) ==
    IF IsBlank(val) THEN NoTime
    ELSE IF val.k \in {"datetime", "time"} THEN ATime(val.h, val.mi, 0)
    ELSE TimeFromStr(Strip(StrOf(val)))

\* datetime(d.year, d.month, d.day, t.hour, t.minute, 0) with t or time(0,0,0).
CombineDT(d, t) ==
    IF ~d.ok THEN NoDateTime
    ELSE IF t.ok THEN ADateTime(d.y, d.m, d.d, t.h, t.mi, 0)
    ELSE ADateTime(d.y, d.m, d.d, 0, 0, 0)

\* parse_datetime(d_val, t_val)
parse_datetime(d_val, t_val) == CombineDT(_to_date(d_val), _to_time(t_val))

\* Python's `a or b` on cell values.
OrElse(a, b) == IF Truthy(a) THEN a ELSE b

TruthyWords ==
    {<<"t", "r", "u", "e">>,
     <<"y", "e", "s">>,
     <<"y">>,
     <<"1">>,
     <<"t", "r", "a", "n", "s", "p", "a", "r", "e", "n", "t">>,
     <<"f", "r", "e", "e">>}

\* truthy(val)
truthy(val) ==
    IF val.k = "none" THEN FALSE
    ELSE Lower(Strip(StrOf(val))) \in TruthyWords

\* The hex digest hashlib.sha1(s).hexdigest()[:16], kept as a term over its
\* preimage: equal inputs give equal digests and, within the bounded inputs,
\* distinct inputs give distinct digests.
Sha1Hex16(s) == <<"sha1(">> \o s \o <<")">>

UidSuffix == <<"@", "y", "o", "u", "r", "u", "n", "i">>

\* make_uid(fields)
make_uid(fields) ==
    Sha1Hex16(Join([i \in 1..Len(fields) |-> StrOf(fields[i])], <<"|">>)) \o UidSuffix

(***************************************************************************)
(* Header lookup                                                           *)
(***************************************************************************)
\* norm(s) == (s or "").strip().lower()
norm(h) == IF Truthy(h) THEN Lower(Strip(StrOf(h))) ELSE <<>>

\* hmap.get(name, -1) for hmap = {hdr_norm[i]: i}: a later duplicate header
\* overwrites an earlier one.  0 stands for -1.
HGet(hdr_norm, name) ==
    IF \E i \in 1..Len(hdr_norm) : hdr_norm[i] = name
    THEN CHOOSE i \in 1..Len(hdr_norm) :
            hdr_norm[i] = name /\ \A j \in (i + 1)..Len(hdr_norm) : hdr_norm[j] # name
    ELSE 0

\* col(*aliases): the position of the first alias that is a header.
RECURSIVE col(_, _)
col(hdr_norm, aliases) ==
    IF aliases = <<>> THEN 0
    ELSE IF HGet(hdr_norm, Lower(Strip(aliases[1]))) > 0
         THEN HGet(hdr_norm, Lower(Strip(aliases[1])))
    ELSE col(hdr_norm, Tail(aliases))

A_UID ==
    <<<<"u", "n", "i", "q", "u", "e", " ", "i", "d">>,
      <<"u", "i", "d">>>>

A_Crs ==
    <<<<"c", "o", "u", "r", "s", "e", " ", "c", "o", "d", "e">>,
      <<"c", "o", "u", "r", "s", "e">>,
      <<"c", "o", "d", "e">>>>

A_Title ==
    <<<<"t", "i", "t", "l", "e">>,
      <<"e", "v", "e", "n", "t", " ", "t", "i", "t", "l", "e">>,
      <<"h", "e", "a", "d", "l", "i", "n", "e">>,
      <<"e", "v", "e", "n", "t", " ", "h", "e", "a", "d", "l", "i", "n", "e">>>>

A_Cat ==
    <<<<"c", "a", "t", "e", "g", "o", "r", "y">>>>

A_SDate ==
    <<<<"s", "t", "a", "r", "t", " ", "d", "a", "t", "e">>,
      <<"s", "t", "a", "r", "t">>>>

A_STime ==
    <<<<"s", "t", "a", "r", "t", " ", "t", "i", "m", "e">>>>

A_EDate ==
    <<<<"e", "n", "d", " ", "d", "a", "t", "e">>>>

A_ETime ==
    <<<<"e", "n", "d", " ", "t", "i", "m", "e">>>>

A_TZ ==
    <<<<"t", "i", "m", "e", "z", "o", "n", "e">>,
      <<"t", "z">>>>

A_Loc ==
    <<<<"l", "o", "c", "a", "t", "i", "o", "n">>,
      <<"p", "l", "a", "c", "e">>>>

A_Desc ==
    <<<<"d", "e", "s", "c", "r", "i", "p", "t", "i", "o", "n">>,
      <<"n", "o", "t", "e", "s">>,
      <<"n", "o", "t", "e">>>>

A_URL ==
    <<<<"l", "i", "n", "k">>,
      <<"u", "r", "l">>>>

A_TRAN ==
    <<<<"t", "r", "a", "n", "s", "p", "a", "r", "e", "n", "t">>,
      <<"t", "r", "a", "n", "s", "p">>>>

\* The thirteen column positions, from the header row.
Columns(hdr_raw) ==
    LET hn == [i \in 1..Len(hdr_raw) |-> norm(hdr_raw[i])]
    IN [c_UID |-> col(hn, A_UID), c_Crs |-> col(hn, A_Crs), c_Title |-> col(hn, A_Title),
        c_Cat |-> col(hn, A_Cat), c_SDate |-> col(hn, A_SDate), c_STime |-> col(hn, A_STime),
        c_EDate |-> col(hn, A_EDate), c_ETime |-> col(hn, A_ETime), c_TZ |-> col(hn, A_TZ),
        c_Loc |-> col(hn, A_Loc), c_Desc |-> col(hn, A_Desc), c_URL |-> col(hn, A_URL),
        c_TRAN |-> col(hn, A_TRAN)]

DEFAULT_TZ == <<"A", "u", "s", "t", "r", "a", "l", "i", "a", "/", "S", "y", "d", "n", "e", "y">>

(***************************************************************************)
(* main(): state                                                           *)
(***************************************************************************)
VARIABLES
    pc,           \* "start": before the header is read; "rows": in the row loop; "written": after f.write
    ws,           \* the worksheet: its header row and the values each column may hold
    cols,         \* c_UID .. c_TRAN
    lines,        \* the output accumulator
    event_count,
    rownum,
    seen,         \* the data rows ws.iter_rows has yielded so far, in order
    out,          \* the text handed to f.write
    val,          \* argument of the coercion under test
    res           \* its result

vars == <<pc, ws, cols, lines, event_count, rownum, seen, out, val, res>>

\* The one character U+2014.
EmDash == "EMDASH"

\* datetime.now(UTC).strftime("%Y%m%dT%H%M%SZ"), read once per run.
now_utc == <<"2", "0", "2", "6", "1", "1", "0", "1", "T", "0", "9", "3", "0", "0", "0", "Z">>

\* AUS_TZ_VTIMEZONE.strip(): one element of lines that holds seventeen text lines.
AUS_TZ_VTIMEZONE ==
    Join(<< <<"BEGIN:VTIMEZONE">>, <<"TZID:Australia/Sydney">>,
            <<"BEGIN:STANDARD">>, <<"DTSTART:19700405T030000">>, <<"TZOFFSETFROM:+1100">>,
            <<"TZOFFSETTO:+1000">>, <<"TZNAME:AEST">>,
            <<"RRULE:FREQ=YEARLY;BYMONTH=4;BYDAY=1SU">>, <<"END:STANDARD">>,
            <<"BEGIN:DAYLIGHT">>, <<"DTSTART:19701004T020000">>, <<"TZOFFSETFROM:+1000">>,
            <<"TZOFFSETTO:+1100">>, <<"TZNAME:AEDT">>,
            <<"RRULE:FREQ=YEARLY;BYMONTH=10;BYDAY=1SU">>, <<"END:DAYLIGHT">>,
            <<"END:VTIMEZONE">> >>, <<NL>>)

\* The initial value of lines.
CalendarHead ==
    << <<"BEGIN:VCALENDAR">>, <<"PRODID:-//YourUni//Class Feeds 1.0//EN">>, <<"VERSION:2.0">>,
       <<"CALSCALE:GREGORIAN">>, <<"METHOD:PUBLISH">>, AUS_TZ_VTIMEZONE >>

(***************************************************************************)
(* main(): the locals of one loop iteration, for row r under columns c     *)
(***************************************************************************)
\* str(r[j]).strip() if j >= 0 and r[j] is not None else dflt
StrCol(j, r, dflt) == IF j > 0 /\ r[j].k # "none" THEN Strip(StrOf(r[j])) ELSE dflt

\* r[j] if j >= 0 else dflt
RawCol(j, r, dflt) == IF j > 0 THEN r[j] ELSE dflt

\* all(v in (None, "") for v in r)
RowEmpty(r) == \A i \in 1..Len(r) : IsBlank(r[i])

\* title, without the strip().
TitleOf_NoStrip(c, r) ==
    LET title_raw == RawCol(c.c_Title, r, Text(<<>>))
    IN IF title_raw.k # "none" THEN StrOf(title_raw) ELSE <<>>

\* title
TitleOf(c, r) ==
    LET title_raw == RawCol(c.c_Title, r, Text(<<>>))
    IN IF title_raw.k # "none" THEN Strip(StrOf(title_raw)) ELSE <<>>

\* sdate
SDateOf(c, r) == RawCol(c.c_SDate, r, None)

\* tz
TzOf(c, r) == StrCol(c.c_TZ, r, DEFAULT_TZ)

\* uid, after `if not uid: uid = make_uid([...])`
UidOf(c, r) ==
    LET uid == StrCol(c.c_UID, r, <<>>)
    IN IF uid = <<>>
       THEN make_uid(<<Text(StrCol(c.c_Crs, r, <<>>)), Text(TitleOf(c, r)), SDateOf(c, r),
                       RawCol(c.c_EDate, r, Text(<<>>)), RawCol(c.c_STime, r, Text(<<>>)),
                       RawCol(c.c_ETime, r, Text(<<>>)), Text(StrCol(c.c_Loc, r, <<>>))>>)
       ELSE uid

\* The DESCRIPTION line: desc.replace("\\n", "\\n") replaces backslash-n by backslash-n.
DescLine(desc) == <<"DESCRIPTION:">> \o Replace(desc, <<BS, "n">>, <<BS, "n">>)

Locals(c, r) ==
    LET course == StrCol(c.c_Crs, r, <<>>)
        title == TitleOf(c, r)
        stime == RawCol(c.c_STime, r, Text(<<>>))
        etime == RawCol(c.c_ETime, r, Text(<<>>))
    IN [title |-> title,
        sdate |-> SDateOf(c, r),
        uid |-> UidOf(c, r),
        course |-> course,
        cat |-> StrCol(c.c_Cat, r, <<>>),
        stime |-> stime,
        edate |-> RawCol(c.c_EDate, r, Text(<<>>)),
        etime |-> etime,
        tz |-> TzOf(c, r),
        location |-> StrCol(c.c_Loc, r, <<>>),
        desc |-> StrCol(c.c_Desc, r, <<>>),
        url |-> StrCol(c.c_URL, r, <<>>),
        is_transparent |-> IF c.c_TRAN > 0 THEN truthy(r[c.c_TRAN]) ELSE FALSE,
        is_all_day |-> ~_to_time(stime).ok /\ ~_to_time(etime).ok,
        summary |-> IF course # <<>> THEN course \o <<SP, EmDash, SP>> \o title ELSE title]

\* A one-element list of lines if cond, else none.
Opt(cond, line) == IF cond THEN <<line>> ELSE <<>>

\* The lines appended from BEGIN:VEVENT to CATEGORIES.
EventHead(f) ==
    LET cats == Opt(f.course # <<>>, f.course) \o Opt(f.cat # <<>>, f.cat)
                \o Opt(f.location # <<>>, f.location)
    IN << <<"BEGIN:VEVENT">>,
          <<"UID:">> \o f.uid,
          <<"DTSTAMP:">> \o now_utc,
          <<"SUMMARY:">> \o f.summary,
          <<"TRANSP:", IF f.is_transparent THEN "TRANSPARENT" ELSE "OPAQUE">> >>
       \o Opt(f.location # <<>>, <<"LOCATION:">> \o f.location)
       \o Opt(f.desc # <<>>, DescLine(f.desc))
       \o Opt(f.url # <<>>, <<"URL:">> \o f.url)
       \o Opt(cats # <<>>, <<"CATEGORIES:">> \o Join(cats, <<",">>))

\* end_d, from `edate` being truthy, _to_date(edate) and start_d.
PickEnd(has_edate, end_parsed, start_d) ==
    IF has_edate THEN (IF end_parsed.ok THEN end_parsed ELSE start_d) ELSE start_d

\* end_d of the all-day branch.
AllDayEnd(f) == PickEnd(Truthy(f.edate), _to_date(f.edate), _to_date(f.sdate))

\* The two lines of the all-day branch.
AllDayLines(f) ==
    << <<"DTSTART;VALUE=DATE:">> \o fmt_date(_to_date(f.sdate)),
       <<"DTEND;VALUE=DATE:">> \o fmt_date(AddDay(AllDayEnd(f))) >>

\* dt_start and dt_end of the timed branch.
DtStart(f) == parse_datetime(f.sdate, f.stime)

DtEnd(f) == parse_datetime(OrElse(f.edate, f.sdate),
                           OrElse(f.etime, OrElse(f.stime, Text(<<"0", "0", ":", "0", "0">>))))

\* The two lines of the timed branch.
TimedLines(f) ==
    << <<"DTSTART;TZID=">> \o f.tz \o <<":">> \o fmt_local(DtStart(f)),
       <<"DTEND;TZID=">> \o f.tz \o <<":">> \o fmt_local(DtEnd(f)) >>

\* lines.append for each of new, with new put in front instead.
Extend_Front(old, new) == new \o old

\* lines.append(x) for each x of new, in order.
Extend(old, new) == old \o new

(***************************************************************************)
(* Bounded inputs: worksheets                                              *)
(*                                                                         *)
(* A worksheet is given by its header row and, per column, the set of      *)
(* values a cell of that column may hold; its data rows are drawn from the *)
(* product of those sets.                                                  *)
(***************************************************************************)
Sheet_TitleDate ==
    [hdr |-> <<Text(<<"T", "i", "t", "l", "e">>),
              Text(<<"S", "t", "a", "r", "t", SP, "D", "a", "t", "e">>),
              Text(<<"N", "o", "t", "e", "s">>)>>,
     cells |-> <<{None, Text(<<SP>>), Text(<<"L">>)},
                {None, Text(<<"3", "1", "/", "0", "2", "/", "2", "0", "2", "4">>), DateTimeV(2024, 3, 4, 0, 0, 0)},
                {None, Text(<<"n">>)}>>]

Sheet_NoTitleColumn ==
    [hdr |-> <<Text(<<"C", "o", "u", "r", "s", "e">>),
              Text(<<"S", "t", "a", "r", "t">>)>>,
     cells |-> <<{Text(<<"C", "1">>), Text(<<>>)},
                {DateTimeV(2024, 3, 4, 0, 0, 0), Text(<<"x", "x">>), Text(<<"2", "0", "2", "4", "-", "0", "3", "-", "0", "4">>)}>>]

Sheet_AllDay ==
    [hdr |-> <<Text(<<"H", "e", "a", "d", "l", "i", "n", "e">>),
              Text(<<"S", "t", "a", "r", "t", SP, "D", "a", "t", "e">>),
              Text(<<"E", "n", "d", SP, "D", "a", "t", "e">>)>>,
     cells |-> <<{Text(<<"L">>)},
                {DateTimeV(2024, 2, 28, 0, 0, 0), Text(<<"3", "1", "/", "1", "2", "/", "2", "0", "2", "3">>), DateV(2024, 2, 29)},
                {None, Text(<<>>), Text(<<"x", "x">>), DateTimeV(2023, 12, 30, 0, 0, 0), DateTimeV(2024, 3, 4, 0, 0, 0)}>>]

Sheet_Times ==
    [hdr |-> <<Text(<<"T", "i", "t", "l", "e">>),
              Text(<<"S", "t", "a", "r", "t">>),
              Text(<<"S", "t", "a", "r", "t", SP, "T", "i", "m", "e">>),
              Text(<<"E", "n", "d", SP, "T", "i", "m", "e">>)>>,
     cells |-> <<{Text(<<"L">>)},
                {DateTimeV(2024, 3, 4, 0, 0, 0)},
                {None, Text(<<"1", "4", ":", "0", "0">>), TimeV(9, 30, 0), Text(<<"x", "x">>)},
                {None, Text(<<>>), Text(<<"1", "6", ":", "0", "0">>), Text(<<"x", "x">>)}>>]

Sheet_EndDate ==
    [hdr |-> <<Text(<<"E", "v", "e", "n", "t", SP, "T", "i", "t", "l", "e">>),
              Text(<<"S", "t", "a", "r", "t", SP, "D", "a", "t", "e">>),
              Text(<<"S", "t", "a", "r", "t", SP, "T", "i", "m", "e">>),
              Text(<<"E", "n", "d", SP, "D", "a", "t", "e">>),
              Text(<<"E", "n", "d", SP, "T", "i", "m", "e">>)>>,
     cells |-> <<{Text(<<"L">>)},
                {DateTimeV(2024, 3, 4, 0, 0, 0)},
                {None, Text(<<"1", "4", ":", "0", "0">>)},
                {None, Text(<<"x", "x">>), DateV(2024, 3, 5)},
                {None, Text(<<"1", "6", ":", "0", "0">>)}>>]

Sheet_Uid ==
    [hdr |-> <<Text(<<"U", "I", "D">>),
              Text(<<"C", "o", "d", "e">>),
              Text(<<"T", "i", "t", "l", "e">>),
              Text(<<"S", "t", "a", "r", "t">>),
              Text(<<"P", "l", "a", "c", "e">>)>>,
     cells |-> <<{None, Text(<<SP>>), Text(<<"i", "d", "1">>)},
                {Text(<<"C", "1">>)},
                {Text(<<"L">>)},
                {DateTimeV(2024, 3, 4, 0, 0, 0), Text(<<"2", "0", "2", "4", "-", "0", "3", "-", "0", "4">>), Text(<<"0", "4", "/", "0", "3", "/", "2", "0", "2", "4">>)},
                {None, Text(<<"R", "1">>)}>>]

Sheet_DescTz ==
    [hdr |-> <<Text(<<"T", "i", "t", "l", "e">>),
              Text(<<"S", "t", "a", "r", "t">>),
              Text(<<"S", "t", "a", "r", "t", SP, "T", "i", "m", "e">>),
              Text(<<"D", "e", "s", "c", "r", "i", "p", "t", "i", "o", "n">>),
              Text(<<"T", "Z">>)>>,
     cells |-> <<{Text(<<"L">>)},
                {DateTimeV(2024, 3, 4, 0, 0, 0)},
                {Text(<<"0", "9", ":", "0", "0">>), None},
                {None, Text(<<"a", NL, "b">>), Text(<<"a", BS, "n", "b">>)},
                {None, Text(<<SP>>), Text(<<"U", "T", "C">>)}>>]

Sheet_Extras ==
    [hdr |-> <<Text(<<SP, "T", "I", "T", "L", "E", SP>>),
              Text(<<"s", "t", "a", "r", "t">>),
              Text(<<"L", "i", "n", "k">>),
              Text(<<"C", "a", "t", "e", "g", "o", "r", "y">>),
              Text(<<"T", "r", "a", "n", "s", "p", "a", "r", "e", "n", "t">>),
              Text(<<"t", "i", "t", "l", "e">>)>>,
     cells |-> <<{Text(<<"o", "l", "d">>)},
                {DateTimeV(2024, 3, 4, 0, 0, 0)},
                {None, Text(<<"u">>)},
                {None, Text(<<"k">>)},
                {None, Text(<<"Y", "e", "s">>)},
                {Text(<<"L">>), None}>>]

Sheets == {Sheet_TitleDate, Sheet_NoTitleColumn, Sheet_AllDay, Sheet_Times, Sheet_EndDate, Sheet_Uid, Sheet_DescTz, Sheet_Extras}

RECURSIVE RowsOver(_)
RowsOver(cells) ==
    IF cells = <<>> THEN {<<>>}
    ELSE {<<v>> \o t : v \in cells[1], t \in RowsOver(Tail(cells))}

\* The rows a worksheet may yield.
Rows(w) == RowsOver(w.cells)

(***************************************************************************)
(* main(): actions                                                         *)
(***************************************************************************)
Init ==
    /\ pc = "start"
    /\ ws \in Sheets
    /\ cols = Columns(<<>>)
    /\ lines = <<>>
    /\ event_count = 0
    /\ rownum = 0
    /\ seen = <<>>
    /\ out = <<>>
    /\ val = None
    /\ res = NoDate

\* Header read, column lookup, and the initial lines, event_count, rownum.
Start ==
    /\ pc = "start"
    /\ pc' = "rows"
    /\ cols' = Columns(ws.hdr)
    /\ lines' = CalendarHead
    /\ event_count' = 0
    /\ rownum' = 1
    /\ UNCHANGED <<ws, seen, out, val, res>>

\* What every loop iteration does first: the next row r is yielded.
Yield(r) ==
    /\ pc = "rows"
    /\ Len(seen) < MaxRows
    /\ seen' = Append(seen, r)
    /\ rownum' = rownum + 1
    /\ UNCHANGED <<pc, ws, cols, out, val, res>>

\* The iteration's `continue` without output.
Skip == UNCHANGED <<lines, event_count>>

\* Row entirely empty.
SkipEmpty ==
    \E r \in Rows(ws) :
        /\ Yield(r)
        /\ RowEmpty(r)
        /\ Skip

\* No title.
SkipNoTitle ==
    \E r \in Rows(ws) :
        /\ Yield(r)
        /\ ~RowEmpty(r)
        /\ TitleOf(cols, r) = <<>>
        /\ Skip

\* Bad or missing start date.
SkipBadStartDate ==
    \E r \in Rows(ws) :
        /\ Yield(r)
        /\ ~RowEmpty(r)
        /\ TitleOf(cols, r) # <<>>
        /\ ~_to_date(SDateOf(cols, r)).ok
        /\ Skip

\* The row passed the title and start-date checks.
Passes(r) == ~RowEmpty(r) /\ TitleOf(cols, r) # <<>> /\ _to_date(SDateOf(cols, r)).ok

\* The all-day branch for locals f.
AllDayStep(f) ==
    /\ f.is_all_day
    /\ lines' = Extend(lines, EventHead(f) \o AllDayLines(f) \o << <<"END:VEVENT">> >>)
    /\ event_count' = event_count + 1

\* An all-day event is appended.
EmitAllDay ==
    \E r \in Rows(ws) :
        /\ Yield(r)
        /\ Passes(r)
        /\ AllDayStep(Locals(cols, r))

\* The timed branch for locals f, both instants resolved.
TimedStep(f) ==
    /\ ~f.is_all_day
    /\ DtStart(f).ok /\ DtEnd(f).ok
    /\ lines' = Extend(lines, EventHead(f) \o TimedLines(f) \o << <<"END:VEVENT">> >>)
    /\ event_count' = event_count + 1

\* A timed event is appended.
EmitTimed ==
    \E r \in Rows(ws) :
        /\ Yield(r)
        /\ Passes(r)
        /\ TimedStep(Locals(cols, r))

\* The timed branch for locals f when dt_start or dt_end is None: the lines
\* appended so far stay, END:VEVENT is appended, and the row is not counted.
BadTimesStep(f) ==
    /\ ~f.is_all_day
    /\ ~(DtStart(f).ok /\ DtEnd(f).ok)
    /\ lines' = Extend(lines, EventHead(f) \o << <<"END:VEVENT">> >>)
    /\ UNCHANGED event_count

\* Timed row with bad time(s).
SkipBadTimes ==
    \E r \in Rows(ws) :
        /\ Yield(r)
        /\ Passes(r)
        /\ BadTimesStep(Locals(cols, r))

\* The loop has ended: f.write("\n".join(lines)).
Write ==
    /\ pc = "rows"
    /\ pc' = "written"
    /\ out' = Join(lines, <<NL>>)
    /\ UNCHANGED <<ws, cols, lines, event_count, rownum, seen, val, res>>

Next ==
    \/ Start
    \/ SkipEmpty
    \/ SkipNoTitle
    \/ SkipBadStartDate
    \/ EmitAllDay
    \/ EmitTimed
    \/ SkipBadTimes
    \/ Write

Spec == Init /\ [][Next]_vars

(***************************************************************************)
(* The coercions on their own: one value in, one result out                *)
(***************************************************************************)
\* "A/B/YYYY" with two-digit A and B.
SlashText(a, b, y) == Text(Pad2(a) \o <<"/">> \o Pad2(b) \o <<"/">> \o Pad4(y))

\* "A/B/YYYY" with A and B below ten written as one digit.
SlashTextShort(a, b, y) == Text(<<Digits[a + 1], "/", Digits[b + 1], "/">> \o Pad4(y))

\* "YYYY-MM-DD"
IsoText(y, m, d) == Text(Pad4(y) \o <<"-">> \o Pad2(m) \o <<"-">> \o Pad2(d))

\* Day and month fields tried, valid and invalid, and the years (one leap).
FieldSamples == {0, 1, 2, 12, 13, 28, 29, 30, 31, 32}
ShortSamples == {1, 2, 9}
YearSamples == {2023, 2024}

SlashInputs == {SlashText(a, b, y) : a \in FieldSamples, b \in FieldSamples, y \in YearSamples}

ShortInputs == {SlashTextShort(a, b, y) : a \in ShortSamples, b \in ShortSamples, y \in YearSamples}

IsoInputs == {IsoText(y, m, d) : y \in YearSamples, m \in {0, 2, 12, 13}, d \in {0, 1, 29, 30, 31, 32}}

OtherInputs ==
    {None, Text(<<>>), Text(<<SP>>), Text(<<"x", "x">>), Text(<<"1", "4", ":", "0", "0">>),
     DateV(2024, 2, 29), DateTimeV(2023, 12, 31, 23, 59, 59), TimeV(14, 0, 0),
     Text(<<SP>> \o IsoText(2024, 3, 4).s \o <<NL>>),
     Text(IsoText(2024, 3, 4).s \o <<"T", "1", "0", ":", "0", "0">>),
     Text(<<"2", "0", "2", "4", "0", "3", "0", "4">>)}

CoerceInputs == SlashInputs \cup ShortInputs \cup IsoInputs \cup OtherInputs

InitCoerce ==
    /\ pc = "coerce"
    /\ val \in CoerceInputs
    /\ res = NoDate
    /\ ws = [hdr |-> <<>>, cells |-> <<>>]
    /\ cols = Columns(<<>>)
    /\ lines = <<>>
    /\ event_count = 0
    /\ rownum = 0
    /\ seen = <<>>
    /\ out = <<>>

\* res = _to_date(val)
ApplyToDate ==
    /\ pc = "coerce"
    /\ pc' = "coerced"
    /\ res' = _to_date(val)
    /\ UNCHANGED <<ws, cols, lines, event_count, rownum, seen, out, val>>

NextCoerce == ApplyToDate

SpecDate == InitCoerce /\ [][NextCoerce]_vars

(***************************************************************************)
(* Vocabulary of the properties                                            *)
(***************************************************************************)
\* The step reads one more row of the worksheet.
RowRead == Len(seen') = Len(seen) + 1

\* The row that the step reads.
NewRow == seen'[Len(seen')]

\* The lines that the step adds at the end of lines (when lines is kept as a prefix).
Added == SubSeq(lines', Len(lines) + 1, Len(lines'))

AllSpace(s) == \A i \in 1..Len(s) : s[i] \in {SP, NL, "\t"}

\* The title is absent, empty or whitespace-only, or there is no title column.
TitleAbsent(c, r) ==
    \/ c.c_Title = 0
    \/ r[c.c_Title].k = "none"
    \/ AllSpace(StrOf(r[c.c_Title]))

\* The start-date cell is not parseable by toDate (or there is no such cell).
StartUnparseable(c, r) == c.c_SDate = 0 \/ ~_to_date(r[c.c_SDate]).ok

\* The cell of column j, absent when there is no such column.
CellOr(j, r) == IF j > 0 THEN r[j] ELSE None

\* Row r has a title and a parseable start date.
Gated(c, r) == ~TitleAbsent(c, r) /\ ~StartUnparseable(c, r)

\* Row r is all-day: neither time cell parses.
IsAllDayRow(c, r) == ~_to_time(CellOr(c.c_STime, r)).ok /\ ~_to_time(CellOr(c.c_ETime, r)).ok

\* A non-empty end-date cell that does not parse.
EndDateBad(c, r) == Truthy(CellOr(c.c_EDate, r)) /\ ~_to_date(CellOr(c.c_EDate, r)).ok

\* Row r is accepted: it yields an event.
Accepted(c, r) == Gated(c, r) /\ (IsAllDayRow(c, r) \/ ~EndDateBad(c, r))

IsBeginEvent(l) == l = <<"BEGIN:VEVENT">>
IsEndEvent(l) == l = <<"END:VEVENT">>
HasPrefix(l, p) == l # <<>> /\ l[1] = p

(***************************************************************************)
(* C1                                                                      *)
(***************************************************************************)
\* C1: a row whose title is absent, empty or whitespace-only (or that has no
\* title column), or whose start-date cell toDate cannot parse, leaves the
\* output lines and the event counter unchanged, whatever its other cells hold.
C1_RejectedRowLeavesNoTrace ==
    [][(RowRead /\ (TitleAbsent(cols, NewRow) \/ StartUnparseable(cols, NewRow)))
        => (lines' = lines /\ event_count' = event_count)]_vars

\* A row with a whitespace-only title, a valid start date and a non-empty note
\* has been read, and the output is still the bare calendar head.
C1_Witness ==
    /\ pc = "rows"
    /\ \E i \in 1..Len(seen) :
          /\ cols.c_Title > 0 /\ seen[i][cols.c_Title] = Text(<<SP>>)
          /\ ~StartUnparseable(cols, seen[i])
          /\ cols.c_Desc > 0 /\ Truthy(seen[i][cols.c_Desc])
    /\ \E i \in 1..Len(seen) : ~TitleAbsent(cols, seen[i]) /\ StartUnparseable(cols, seen[i])
    /\ lines = CalendarHead
    /\ event_count = 0

(***************************************************************************)
(* C6                                                                      *)
(***************************************************************************)
\* The lines from BEGIN:VEVENT to END:VEVENT form exactly one block.
OneBlock(b) ==
    /\ Len(b) >= 2
    /\ IsBeginEvent(b[1])
    /\ IsEndEvent(b[Len(b)])
    /\ \A i \in 2..(Len(b) - 1) : ~IsBeginEvent(b[i]) /\ ~IsEndEvent(b[i])

\* C6: event blocks appear in source row order.  Every step keeps the lines
\* already appended as they are (nothing is modified, removed or reordered), and
\* a step that reads an accepted row adds, at the end, exactly one whole block,
\* the block of that row (its UID line), also when an identical row came before.
C6_BlocksInRowOrder ==
    [][/\ Len(lines') >= Len(lines)
       /\ SubSeq(lines', 1, Len(lines)) = lines
       /\ (RowRead /\ Accepted(cols, NewRow))
            => (/\ OneBlock(Added)
                /\ Added[2] = <<"UID:">> \o UidOf(cols, NewRow)
                /\ event_count' = event_count + 1)]_vars

\* Two identical accepted rows have been read and the document holds two
\* blocks with the same UID line, one after the other.
C6_Witness ==
    /\ Len(seen) = 2
    /\ seen[1] = seen[2]
    /\ Accepted(cols, seen[1])
    /\ event_count = 2
    /\ \E i, j \in 1..Len(lines) :
          /\ i < j
          /\ IsBeginEvent(lines[i]) /\ IsBeginEvent(lines[j])
          /\ lines[i + 1] = lines[j + 1]
          /\ HasPrefix(lines[i + 1], "UID:")

(***************************************************************************)
(* C9                                                                      *)
(***************************************************************************)
\* The documented result of toDate for "A/B/YYYY": day-first, then month-first.
DayFirstThenMonthFirst(a, b, y) ==
    IF ValidDate(y, b, a) THEN ADate(y, b, a)
    ELSE IF ValidDate(y, a, b) THEN ADate(y, a, b)
    ELSE NoDate

\* C9: toDate tries ISO YYYY-MM-DD, then day-first DD/MM/YYYY, then month-first
\* MM/DD/YYYY and returns the first success: "A/B/YYYY" is (day A, month B)
\* when that is a calendar date, else (month A, day B) when that is one, else
\* "no date"; a valid ISO string is its date; an empty value is "no date".
C9_ToDateFormatOrder ==
    pc = "coerced" =>
        /\ \A a \in FieldSamples, b \in FieldSamples, y \in YearSamples :
              val = SlashText(a, b, y) => res = DayFirstThenMonthFirst(a, b, y)
        /\ \A a \in ShortSamples, b \in ShortSamples, y \in YearSamples :
              val = SlashTextShort(a, b, y) => res = DayFirstThenMonthFirst(a, b, y)
        /\ \A y \in YearSamples, m \in 1..12, d \in 1..31 :
              (val = IsoText(y, m, d) /\ ValidDate(y, m, d)) => res = ADate(y, m, d)
        /\ (val = None \/ val = Text(<<>>) \/ val = Text(<<"x", "x">>)) => res = NoDate

\* "01/02/2024" has been parsed, to 1 February 2024.
C9_Witness == pc = "coerced" /\ val = SlashText(1, 2, 2024) /\ res = ADate(2024, 2, 1)

(***************************************************************************)
(* C2                                                                      *)
(***************************************************************************)
IsDtStart(l) == HasPrefix(l, "DTSTART;TZID=") \/ HasPrefix(l, "DTSTART;VALUE=DATE:")
IsDtEnd(l) == HasPrefix(l, "DTEND;TZID=") \/ HasPrefix(l, "DTEND;VALUE=DATE:")

\* Line j lies in the block that BEGIN:VEVENT line i opens.
InBlock(i, j) == i < j /\ j <= Len(lines) /\ \A k \in (i + 1)..j : ~IsEndEvent(lines[k])

\* The reported count is the number of BEGIN:VEVENT blocks, and every block
\* holds a DTSTART and a DTEND line.
CountMatchesBlocks ==
    /\ event_count = Cardinality({i \in 1..Len(lines) : IsBeginEvent(lines[i])})
    /\ \A i \in 1..Len(lines) :
          IsBeginEvent(lines[i]) =>
              /\ \E j \in 1..Len(lines) : InBlock(i, j) /\ IsDtStart(lines[j])
              /\ \E j \in 1..Len(lines) : InBlock(i, j) /\ IsDtEnd(lines[j])

\* C2: a timed row with a valid title and start date whose end instant cannot
\* be resolved (a non-empty end-date cell that does not parse) is skipped like
\* any rejected row: no line is added and the counter stays.  So the count
\* always equals the number of VEVENT blocks, each with DTSTART and DTEND.
C2_UnresolvedTimedRowSkipped ==
    /\ [][(RowRead /\ Gated(cols, NewRow) /\ ~IsAllDayRow(cols, NewRow)
             /\ EndDateBad(cols, NewRow))
          => (lines' = lines /\ event_count' = event_count)]_vars
    /\ [](pc \in {"rows", "written"} => CountMatchesBlocks)

(***************************************************************************)
(* C3                                                                      *)
(***************************************************************************)
\* The later of the parsed end date and the start date; the start date when
\* the end date is absent or unparseable.
LaterOf(e, s) == IF e.ok /\ DateBefore(s, e) THEN e ELSE s

\* The last two lines before END:VEVENT are the given DTSTART and DTEND.
EndsWithDates(ls, dtstart, dtend) ==
    /\ Len(ls) >= 3
    /\ ls[Len(ls) - 2] = dtstart
    /\ ls[Len(ls) - 1] = dtend
    /\ IsEndEvent(ls[Len(ls)])

\* C3: an accepted row with no parseable start time and no parseable end time
\* is rendered all-day from its start date, and its DTEND;VALUE=DATE is one
\* calendar day after the later of (parsed end date, start date), so it is
\* strictly after DTSTART also when the end-date cell is earlier than the start.
C3_AllDayEndAfterLaterDate ==
    [][(RowRead /\ Accepted(cols, NewRow) /\ IsAllDayRow(cols, NewRow))
        => EndsWithDates(lines',
              <<"DTSTART;VALUE=DATE:">> \o fmt_date(_to_date(CellOr(cols.c_SDate, NewRow))),
              <<"DTEND;VALUE=DATE:">>
                 \o fmt_date(AddDay(LaterOf(_to_date(CellOr(cols.c_EDate, NewRow)),
                                            _to_date(CellOr(cols.c_SDate, NewRow))))))]_vars

(***************************************************************************)
(* C4                                                                      *)
(***************************************************************************)
\* combine(d, t), with midnight for an absent t.
Combine(d, t) == ADateTime(d.y, d.m, d.d, IF t.ok THEN t.h ELSE 0, IF t.ok THEN t.mi ELSE 0, 0)

\* The end time of the three-level fallback: parsed end time, else parsed
\* start time, else midnight.
FallbackTime(et, st) == IF et.ok THEN et ELSE st

\* The end date: the end date if present, else the start date.
FallbackDate(edate, sd) == IF Truthy(edate) THEN _to_date(edate) ELSE sd

\* The local time that ends line l (its last fifteen characters).
LocalOf(l) == SubSeq(l, Len(l) - 14, Len(l))

TimedInstants(ls, dt_start, dt_end) ==
    /\ Len(ls) >= 3
    /\ HasPrefix(ls[Len(ls) - 2], "DTSTART;TZID=")
    /\ LocalOf(ls[Len(ls) - 2]) = fmt_local(dt_start)
    /\ HasPrefix(ls[Len(ls) - 1], "DTEND;TZID=")
    /\ LocalOf(ls[Len(ls) - 1]) = fmt_local(dt_end)

\* C4: for an accepted timed row the start instant is combine(start date,
\* parsed start time or midnight) and the end instant is combine(end date if
\* present else start date, T) with T the parsed end time if the end-time cell
\* parses, else the parsed start time if the start-time cell parses, else
\* midnight: an unparseable or empty end time ends the event at the start time.
C4_TimedFallback ==
    [][(RowRead /\ Accepted(cols, NewRow) /\ ~IsAllDayRow(cols, NewRow))
        => TimedInstants(lines',
              Combine(_to_date(CellOr(cols.c_SDate, NewRow)), _to_time(CellOr(cols.c_STime, NewRow))),
              Combine(FallbackDate(CellOr(cols.c_EDate, NewRow),
                                   _to_date(CellOr(cols.c_SDate, NewRow))),
                      FallbackTime(_to_time(CellOr(cols.c_ETime, NewRow)),
                                   _to_time(CellOr(cols.c_STime, NewRow)))))]_vars

(***************************************************************************)
(* C5                                                                      *)
(***************************************************************************)
\* No id is supplied: no id column, an empty cell, or only whitespace.
NoSuppliedId(c, r) == c.c_UID = 0 \/ r[c.c_UID].k = "none" \/ AllSpace(StrOf(r[c.c_UID]))

\* The trimmed text of column j, empty when absent.
TextOr(j, r) == IF j > 0 /\ r[j].k # "none" THEN Strip(StrOf(r[j])) ELSE <<>>

\* The normalized (course, title, startDate, endDate, startTime, endTime, location).
Normalized7(c, r) ==
    <<TextOr(c.c_Crs, r), TextOr(c.c_Title, r), _to_date(CellOr(c.c_SDate, r)),
      _to_date(CellOr(c.c_EDate, r)), _to_time(CellOr(c.c_STime, r)),
      _to_time(CellOr(c.c_ETime, r)), TextOr(c.c_Loc, r)>>

\* The position in lines of the k-th BEGIN:VEVENT.
BeginIdx(k) ==
    CHOOSE i \in 1..Len(lines) :
        IsBeginEvent(lines[i]) /\ Cardinality({j \in 1..i : IsBeginEvent(lines[j])}) = k

\* The UID line emitted for the i-th row read: every row that passes the title
\* and start-date checks opens one block, in row order.
EmittedUid(i) == lines[BeginIdx(Cardinality({j \in 1..i : Gated(cols, seen[j])})) + 1]

\* C5: the emitted UID is the supplied id when there is one; otherwise it is a
\* function of the normalized (course, title, startDate, endDate, startTime,
\* endTime, location) alone: two accepted rows without an id that agree on
\* these get the same UID, however a cell wrote the same date or time.
C5_UidFromNormalizedFields ==
    pc = "rows" =>
        \A i, j \in 1..Len(seen) :
            /\ (Accepted(cols, seen[i]) /\ ~NoSuppliedId(cols, seen[i]))
                  => EmittedUid(i) = <<"UID:">> \o TextOr(cols.c_UID, seen[i])
            /\ (/\ Accepted(cols, seen[i]) /\ Accepted(cols, seen[j])
                /\ NoSuppliedId(cols, seen[i]) /\ NoSuppliedId(cols, seen[j])
                /\ Normalized7(cols, seen[i]) = Normalized7(cols, seen[j]))
                  => EmittedUid(i) = EmittedUid(j)

(***************************************************************************)
(* C7                                                                      *)
(***************************************************************************)
\* C7: the emitted DESCRIPTION field is escape-encoded: it holds no raw newline
\* character, so a description never splits into further lines of the document.
C7_DescriptionEscaped ==
    \A i \in 1..Len(lines) :
        HasPrefix(lines[i], "DESCRIPTION:") => \A k \in 1..Len(lines[i]) : lines[i][k] # NL

(***************************************************************************)
(* C8                                                                      *)
(***************************************************************************)
\* The documented timezone of a row: the trimmed cell, or the default when the
\* column or the cell is missing or the cell is empty or whitespace-only.
ExpectedTz(c, r) ==
    IF c.c_TZ = 0 \/ r[c.c_TZ].k = "none" \/ AllSpace(StrOf(r[c.c_TZ]))
    THEN DEFAULT_TZ
    ELSE Strip(StrOf(r[c.c_TZ]))

TimedTzid(ls, tz) ==
    /\ Len(ls) >= 3
    /\ tz # <<>>
    /\ StartsWith(ls[Len(ls) - 2], <<"DTSTART;TZID=">> \o tz \o <<":">>)
    /\ StartsWith(ls[Len(ls) - 1], <<"DTEND;TZID=">> \o tz \o <<":">>)

\* C8: DTSTART and DTEND of every timed event carry the same non-empty TZID:
\* the row's trimmed timezone when that is non-empty, else Australia/Sydney
\* (no timezone column, no cell, or an empty or whitespace-only cell).
C8_TimedTzid ==
    [][(RowRead /\ Accepted(cols, NewRow) /\ ~IsAllDayRow(cols, NewRow))
        => TimedTzid(lines', ExpectedTz(cols, NewRow))]_vars

(***************************************************************************)
(* C10                                                                     *)
(***************************************************************************)
Components == {"VCALENDAR", "VTIMEZONE", "STANDARD", "DAYLIGHT", "VEVENT"}

BeginLine(comp) ==
    CASE comp = "VCALENDAR" -> <<"BEGIN:VCALENDAR">>
      [] comp = "VTIMEZONE" -> <<"BEGIN:VTIMEZONE">>
      [] comp = "STANDARD" -> <<"BEGIN:STANDARD">>
      [] comp = "DAYLIGHT" -> <<"BEGIN:DAYLIGHT">>
      [] comp = "VEVENT" -> <<"BEGIN:VEVENT">>

EndLine(comp) ==
    CASE comp = "VCALENDAR" -> <<"END:VCALENDAR">>
      [] comp = "VTIMEZONE" -> <<"END:VTIMEZONE">>
      [] comp = "STANDARD" -> <<"END:STANDARD">>
      [] comp = "DAYLIGHT" -> <<"END:DAYLIGHT">>
      [] comp = "VEVENT" -> <<"END:VEVENT">>

\* The text lines ls are well nested, starting from the open components in stack.
RECURSIVE Nested(_, _)
Nested(ls, stack) ==
    IF ls = <<>> THEN stack = <<>>
    ELSE IF \E comp \in Components : ls[1] = BeginLine(comp)
    THEN Nested(Tail(ls), <<CHOOSE comp \in Components : ls[1] = BeginLine(comp)>> \o stack)
    ELSE IF \E comp \in Components : ls[1] = EndLine(comp)
    THEN /\ stack # <<>>
         /\ ls[1] = EndLine(stack[1])
         /\ Nested(Tail(ls), Tail(stack))
    ELSE Nested(Tail(ls), stack)

WellFormedDocument(ls) ==
    /\ ls # <<>>
    /\ ls[1] = BeginLine("VCALENDAR")
    /\ ls[Len(ls)] = EndLine("VCALENDAR")
    /\ Nested(ls, <<>>)
    /\ \A i \in 1..Len(ls) :
          ls[i] = BeginLine("VEVENT")
             => \E j \in 1..(i - 1) : ls[j] = EndLine("VTIMEZONE")

\* C10: the document handed to the writer is a well-nested calendar container:
\* every BEGIN line has its END line, properly nested, every VEVENT block lies
\* after the VTIMEZONE block, and the VCALENDAR opened by the first line is
\* closed by END:VCALENDAR as the last line.  Also with zero accepted rows.
C10_WellNestedDocument == pc = "written" => WellFormedDocument(Split(out, NL))

====
